---- MODULE Spec2Model ----
(***************************************************************************)
(* ManageEIPs: the Lambda entry point lambda_handler of                    *)
(* src/lambda_function.py as a state machine.  One invocation scans the    *)
(* account's Elastic IPs in discovery order, classifies each by its tags   *)
(* and association, releases (or, in dry-run, would release) the managed,  *)
(* unprotected, unassociated ones, and ends with a summary log line, an    *)
(* optional EMF metrics record and a 200 response, or with an exception    *)
(* propagated to the Lambda runtime.                                       *)
(*                                                                         *)
(* Python values: an optional value is a sequence of length at most one    *)
(* (None is <<>>, a value v is <<v>>); a dict is a function on its keys;   *)
(* the strings that are lower-cased are sequences of characters.           *)
(***************************************************************************)
EXTENDS Integers, Sequences, FiniteSets, TLC

VARIABLES
    event,                \* the invocation payload (a dict)
    environ,              \* the process environment (a dict of strings)
    dry_run,              \* line 79
    METRICS_ENABLED,      \* line 91
    scanned,              \* lines 112-118: the run counters
    skipped_not_managed,
    skipped_protected,
    associated,
    would_release,
    released,
    per_eip_errors,
    elastic_ip,           \* the loop variable of line 120
    exc,                  \* the exception in flight, if any
    pc,                   \* where lambda_handler stands
    stdout,               \* the lines printed so far (log lines and EMF records)
    releaseCalls,         \* EC2 side: the release() invocations received so far
    retval,               \* what lambda_handler returned, if it returned
    inventory,            \* EC2 side: the account's addresses by allocation id, when
                          \* the account is known (empty when addresses are arbitrary)
    listed,               \* the allocation ids describe_addresses lists in this run
    pending,              \* the listed ids the iterator has not yielded yet
    run,                  \* which invocation of lambda_handler this is
    first_run             \* the counters the first invocation ended with

vars == <<event, environ, dry_run, METRICS_ENABLED, scanned, skipped_not_managed,
          skipped_protected, associated, would_release, released, per_eip_errors,
          elastic_ip, exc, pc, stdout, releaseCalls, retval,
          inventory, listed, pending, run, first_run>>

counters == <<scanned, skipped_not_managed, skipped_protected, associated,
              would_release, released, per_eip_errors>>

(***************************************************************************)
(* Bounds of the model.                                                    *)
(***************************************************************************)
\* The longest sequence of addresses vpc_addresses.all() yields in one run.
MaxAddresses == 3
\* The most addresses an account whose addresses are known holds.
MaxInventory == 2
\* The longest tag list of an address whose keys may repeat.
MaxTags == 3

(***************************************************************************)
(* Python values.                                                          *)
(***************************************************************************)
None == <<>>
Some(v) == <<v>>
EmptyDict == [k \in {} |-> k]
\* dict.get(key, default)
Get(d, key, default) == IF key \in DOMAIN d THEN d[key] ELSE default

\* Strings that go through str().lower(): sequences of characters.
UpperCase == <<"A","B","C","D","E","F","G","H","I","J","K","L","M",
               "N","O","P","Q","R","S","T","U","V","W","X","Y","Z">>
LowerCase == <<"a","b","c","d","e","f","g","h","i","j","k","l","m",
               "n","o","p","q","r","s","t","u","v","w","x","y","z">>
LowerChar(c) ==
    IF \E i \in DOMAIN UpperCase : UpperCase[i] = c
    THEN LowerCase[CHOOSE i \in DOMAIN UpperCase : UpperCase[i] = c]
    ELSE c
\* str.lower()
Lower(s) == [i \in DOMAIN s |-> LowerChar(s[i])]

\* A payload value: a JSON string, a JSON boolean or JSON null.
PyStr(s) == [type |-> "str", chars |-> s]
PyBool(b) == [type |-> "bool", b |-> b]
PyNone == [type |-> "NoneType"]
\* str(v)
Str(v) ==
    CASE v.type = "str" -> v.chars
      [] v.type = "bool" -> IF v.b THEN <<"T","r","u","e">> ELSE <<"F","a","l","s","e">>
      [] OTHER -> <<"N","o","n","e">>

(***************************************************************************)
(* Configuration (lines 77-92).                                            *)
(***************************************************************************)
\* os.getenv(name, default): the environment holds strings only.
getenv(name, default) == IF name \in DOMAIN environ THEN PyStr(environ[name]) ELSE default

\* Line 79 with the environment ahead of the payload.
ResolveDryRun_EnvFirst ==
    Lower(Str(getenv("DRY_RUN", Get(event, "dry_run", PyStr(<<"f","a","l","s","e">>)))))
        = <<"t","r","u","e">>

\* Line 79.
ResolveDryRun ==
    Lower(Str(Get(event, "dry_run", getenv("DRY_RUN", PyStr(<<"f","a","l","s","e">>)))))
        = <<"t","r","u","e">>

\* Line 91.
ResolveMetricsEnabled ==
    Lower(Str(getenv("METRICS_ENABLED", PyStr(<<"t","r","u","e">>)))) = <<"t","r","u","e">>

\* Lines 83-88 and 92, at their defaults.
MANAGED_TAG_KEY == "ManagedBy"
MANAGED_TAG_VALUE == "ManageEIPs"
PROTECT_TAG_KEY == "Protection"
PROTECT_TAG_VALUE == "DoNotRelease"
METRICS_NAMESPACE == "Custom/FinOps"

(***************************************************************************)
(* The inputs: payloads, environments, addresses, outcomes of release().   *)
(***************************************************************************)
Payloads ==
    {EmptyDict} \cup
    {[k \in {"dry_run"} |-> v] :
        v \in {PyStr(<<"T","R","U","E">>), PyStr(<<"f","a","l","s","e">>), PyBool(TRUE)}}

EnvDryRun == {<<"T","r","u","e">>, <<"f","a","l","s","e">>}
EnvMetrics == {<<"F","A","L","S","E">>}
Environments ==
    {EmptyDict}
    \cup {[k \in {"DRY_RUN"} |-> d] : d \in EnvDryRun}
    \cup {[k \in {"METRICS_ENABLED"} |-> m] : m \in EnvMetrics}
    \cup {[k \in {"DRY_RUN", "METRICS_ENABLED"} |->
              IF k = "DRY_RUN" THEN <<"T","r","u","e">> ELSE m] : m \in EnvMetrics}

TagKeys == {MANAGED_TAG_KEY, PROTECT_TAG_KEY}
TagValues == {MANAGED_TAG_VALUE, PROTECT_TAG_VALUE}
Tag == [Key : TagKeys, Value : TagValues]
\* EC2 keeps the tag keys of one resource unique, so a tag list is no longer
\* than the set of keys.
UniqueKeys(tags) == \A i, j \in DOMAIN tags : tags[i].Key = tags[j].Key => i = j
TagLists ==
    {tags \in UNION {[1..n -> Tag] : n \in 0..Cardinality(TagKeys)} : UniqueKeys(tags)}

\* An address as vpc_addresses.all() yields it: tags is None or a list,
\* instance_id is None or the id of the instance it is associated with.
Addresses(id) ==
    [allocation_id : {id},
     tags : {None} \cup {Some(t) : t \in TagLists},
     instance_id : {None, Some("i-0abc")}]

\* Before the first iteration the loop variable is unbound.
Unbound == [allocation_id |-> 0, tags |-> None, instance_id |-> None]

FatalCodes ==
    {"AccessDenied", "AccessDeniedException", "UnauthorizedOperation",
     "UnrecognizedClientException", "InvalidClientTokenId",
     "SignatureDoesNotMatch", "ExpiredToken"}
\* Codes EC2 answers release_address with that are not in the set of line 191.
OtherCodes == {"RequestLimitExceeded", "InvalidAddress.InUse", "AuthFailure"}

\* ClientError.response: an Error dict with a Code, an Error dict without one,
\* or no Error dict at all.
Responses ==
    {[k \in {"Error"} |-> [j \in {"Code"} |-> c]] : c \in FatalCodes \cup OtherCodes}
    \cup {[k \in {"Error"} |-> EmptyDict], EmptyDict}

NoException == [class |-> "none"]
ClientErrors == {[class |-> "ClientError", response |-> r] : r \in Responses}
\* An exception that is not a ClientError (a BotoCoreError).
OtherExceptions == {[class |-> "EndpointConnectionError"]}

(***************************************************************************)
(* Helpers of lambda_function.py.                                          *)
(***************************************************************************)
\* log(level, message, **fields), lines 8-21: one JSON object per line.
LogLine(level, message, fields) == [level |-> level, message |-> message] @@ fields

\* _get_tag_value with the comparison of the key left out: the value of the
\* first tag, whatever its key.
_get_tag_value_AnyKey(tags, key) ==
    IF tags = <<>> THEN None ELSE Some(tags[1].Value)

\* A lookup that keeps the last tag of the key instead of returning at the
\* first.
_get_tag_value_LastMatch(tags, key) ==
    IF tags = <<>>
    THEN None
    ELSE IF \E i \in DOMAIN tags : tags[i].Key = key
         THEN LET last == CHOOSE i \in DOMAIN tags :
                              /\ tags[i].Key = key
                              /\ \A j \in DOMAIN tags : tags[j].Key = key => j <= i
              IN  Some(tags[last].Value)
         ELSE None

\* A lookup that examines the first tag of the list only.
_get_tag_value_FirstTagOnly(tags, key) ==
    IF tags = <<>> THEN None
    ELSE IF tags[1].Key = key THEN Some(tags[1].Value) ELSE None

\* _get_tag_value(tags, key), lines 26-38: the value of the first tag of the
\* list whose Key is key, None when the list is empty or holds no such tag.
_get_tag_value(tags, key) ==
    IF tags = <<>>
    THEN None
    ELSE IF \E i \in DOMAIN tags : tags[i].Key = key
         THEN LET first == CHOOSE i \in DOMAIN tags :
                               /\ tags[i].Key = key
                               /\ \A j \in DOMAIN tags : tags[j].Key = key => i <= j
              IN  Some(tags[first].Value)
         ELSE None

\* emit_emf_metrics(namespace, dimensions, metrics), lines 42-71.  The
\* Timestamp (the wall clock) is left out; the list of metric definitions is
\* kept as a set, one definition per key of metrics.
emit_emf_metrics(namespace, dimensions, metrics) ==
    [_aws |-> [CloudWatchMetrics |->
                  <<[Namespace |-> namespace,
                     Dimensions |-> <<DOMAIN dimensions>>,
                     Metrics |-> {[Name |-> n, Unit |-> "Count"] : n \in DOMAIN metrics}]>>]]
        @@ dimensions @@ metrics

\* Line 125: getattr(elastic_ip, "tags", None) or [].
TagsOf(address) ==
    IF address.tags = None \/ address.tags = Some(<<>>) THEN <<>> ELSE address.tags[1]

\* The loop body with the association test ahead of the deny-list test: an
\* unassociated protected address falls through to the release.
Disposition_ProtectAfterAssociation(address, dry) ==
    LET tags == TagsOf(address)
        managed_val == _get_tag_value(tags, MANAGED_TAG_KEY)
        protect_val == _get_tag_value(tags, PROTECT_TAG_KEY)
    IN  IF managed_val # Some(MANAGED_TAG_VALUE) THEN "not_managed"
        ELSE IF address.instance_id # None
             THEN (IF protect_val = Some(PROTECT_TAG_VALUE) THEN "protected" ELSE "associated")
        ELSE IF dry THEN "would_release"
        ELSE "release"

\* The loop body without the association test.
Disposition_NoAssociationTest(address, dry) ==
    LET tags == TagsOf(address)
        managed_val == _get_tag_value(tags, MANAGED_TAG_KEY)
        protect_val == _get_tag_value(tags, PROTECT_TAG_KEY)
    IN  IF managed_val # Some(MANAGED_TAG_VALUE) THEN "not_managed"
        ELSE IF protect_val = Some(PROTECT_TAG_VALUE) THEN "protected"
        ELSE IF dry THEN "would_release"
        ELSE "release"

\* The loop body taking the dry-run branch in both modes.
Disposition_AlwaysDryRun(address, dry) ==
    LET tags == TagsOf(address)
        managed_val == _get_tag_value(tags, MANAGED_TAG_KEY)
        protect_val == _get_tag_value(tags, PROTECT_TAG_KEY)
    IN  IF managed_val # Some(MANAGED_TAG_VALUE) THEN "not_managed"
        ELSE IF protect_val = Some(PROTECT_TAG_VALUE) THEN "protected"
        ELSE IF address.instance_id # None THEN "associated"
        ELSE "would_release"

\* The loop body without the dry-run test: it releases in both modes.
Disposition_IgnoresDryRun(address, dry) ==
    LET tags == TagsOf(address)
        managed_val == _get_tag_value(tags, MANAGED_TAG_KEY)
        protect_val == _get_tag_value(tags, PROTECT_TAG_KEY)
    IN  IF managed_val # Some(MANAGED_TAG_VALUE) THEN "not_managed"
        ELSE IF protect_val = Some(PROTECT_TAG_VALUE) THEN "protected"
        ELSE IF address.instance_id # None THEN "associated"
        ELSE "release"

\* The loop body with the dry-run test inverted.
Disposition_DryRunInverted(address, dry) ==
    LET tags == TagsOf(address)
        managed_val == _get_tag_value(tags, MANAGED_TAG_KEY)
        protect_val == _get_tag_value(tags, PROTECT_TAG_KEY)
    IN  IF managed_val # Some(MANAGED_TAG_VALUE) THEN "not_managed"
        ELSE IF protect_val = Some(PROTECT_TAG_VALUE) THEN "protected"
        ELSE IF address.instance_id # None THEN "associated"
        ELSE IF ~dry THEN "would_release"
        ELSE "release"

\* Lines 127-163: the branch of the loop body an address takes.
Disposition(address, dry) ==
    LET tags == TagsOf(address)
        managed_val == _get_tag_value(tags, MANAGED_TAG_KEY)
        protect_val == _get_tag_value(tags, PROTECT_TAG_KEY)
    IN  IF managed_val # Some(MANAGED_TAG_VALUE) THEN "not_managed"
        ELSE IF protect_val = Some(PROTECT_TAG_VALUE) THEN "protected"
        ELSE IF address.instance_id # None THEN "associated"
        ELSE IF dry THEN "would_release"
        ELSE "release"

\* The code looked up in the response itself, not in its Error dict.
ErrorCode_TopLevel(e) == Get(e.response, "Code", "Unknown")

\* Line 181: e.response.get("Error", {}).get("Code", "Unknown").
ErrorCode(e) == Get(Get(e.response, "Error", EmptyDict), "Code", "Unknown")

\* The fail-fast set with EC2's own credential failure code added.
FailFastCode_WithAuthFailure(code) == code \in FatalCodes \cup {"AuthFailure"}

\* The fail-fast set with one code missing.
FailFastCode_WithoutExpiredToken(code) == code \in FatalCodes \ {"ExpiredToken"}

\* Lines 191-199: the codes on which the run fails fast.
FailFastCode(code) == code \in FatalCodes

\* Which except clause an exception raised in the try block reaches
\* (lines 174 and 205).
IsClientError(e) == e.class = "ClientError"

\* The summary with released and would_release taking each other's place.
SummaryFields_ReleasedSwapped ==
    [dry_run |-> dry_run,
     scanned |-> scanned,
     skipped_not_managed |-> skipped_not_managed,
     skipped_protected |-> skipped_protected,
     associated |-> associated,
     would_release |-> released,
     released |-> would_release,
     per_eip_errors |-> per_eip_errors]

\* Lines 228-234 and 244-250: the counters as the summary and the metrics
\* record carry them.
SummaryFields ==
    [dry_run |-> dry_run,
     scanned |-> scanned,
     skipped_not_managed |-> skipped_not_managed,
     skipped_protected |-> skipped_protected,
     associated |-> associated,
     would_release |-> would_release,
     released |-> released,
     per_eip_errors |-> per_eip_errors]

\* The metrics with EIPsReleased fed from would_release.
MetricFields_ReleasedFromWouldRelease ==
    [EIPsScanned |-> scanned,
     EIPsSkippedNotManaged |-> skipped_not_managed,
     EIPsSkippedProtected |-> skipped_protected,
     EIPsAssociated |-> associated,
     EIPsWouldRelease |-> would_release,
     EIPsReleased |-> would_release,
     EIPsPerEipErrors |-> per_eip_errors]

MetricFields ==
    [EIPsScanned |-> scanned,
     EIPsSkippedNotManaged |-> skipped_not_managed,
     EIPsSkippedProtected |-> skipped_protected,
     EIPsAssociated |-> associated,
     EIPsWouldRelease |-> would_release,
     EIPsReleased |-> released,
     EIPsPerEipErrors |-> per_eip_errors]

\* Line 242, for an invocation without a context object.
FunctionName == "ManageEIPs"

(***************************************************************************)
(* The state after lines 76-118: configuration read, start line logged,    *)
(* counters at zero, the loop about to ask for the first address.          *)
(***************************************************************************)
Invoked ==
    /\ dry_run = ResolveDryRun
    /\ METRICS_ENABLED = ResolveMetricsEnabled
    /\ scanned = 0
    /\ skipped_not_managed = 0
    /\ skipped_protected = 0
    /\ associated = 0
    /\ would_release = 0
    /\ released = 0
    /\ per_eip_errors = 0
    /\ elastic_ip = Unbound
    /\ exc = NoException
    /\ pc = "for"
    /\ stdout = <<LogLine("INFO", "ManageEIPs start",
                          [dry_run |-> ResolveDryRun,
                           metrics_enabled |-> ResolveMetricsEnabled])>>
    /\ retval = None

\* One invocation on an account whose addresses are arbitrary: the iterator
\* yields any address, up to MaxAddresses of them.
Init ==
    /\ event \in Payloads
    /\ environ \in Environments
    /\ Invoked
    /\ releaseCalls = <<>>
    /\ inventory = EmptyDict
    /\ listed = {}
    /\ pending = {}
    /\ run = 1
    /\ first_run = None

config == <<event, environ, dry_run, METRICS_ENABLED>>
account == <<inventory, listed, pending, run, first_run>>

(***************************************************************************)
(* Line 120, first step of the iterator: describe_addresses fails.  The    *)
(* call is outside the try block, so the exception leaves lambda_handler   *)
(* unlogged.                                                               *)
(***************************************************************************)
DescribeAddressesFails ==
    /\ pc = "for"
    /\ scanned = 0
    /\ \E e \in ClientErrors \cup OtherExceptions : exc' = e
    /\ pc' = "raised"
    /\ UNCHANGED <<config, account, counters, elastic_ip, stdout, releaseCalls, retval>>

(***************************************************************************)
(* Lines 120-170: the iterator yields the next address; it is counted,     *)
(* classified, and either skipped, logged as a would-be release, or        *)
(* brought to the release() call of line 171.                              *)
(***************************************************************************)
LoopBody(address) ==
    /\ LET d == Disposition(address, dry_run)
        IN  /\ elastic_ip' = address
            /\ scanned' = scanned + 1
            /\ skipped_not_managed' = skipped_not_managed + (IF d = "not_managed" THEN 1 ELSE 0)
            /\ skipped_protected' = skipped_protected + (IF d = "protected" THEN 1 ELSE 0)
            /\ associated' = associated + (IF d = "associated" THEN 1 ELSE 0)
            /\ would_release' = would_release + (IF d = "would_release" THEN 1 ELSE 0)
            /\ stdout' =
                CASE d = "protected" ->
                        Append(stdout, LogLine("INFO", "Skipping protected Elastic IP",
                            [allocation_id |-> address.allocation_id, action |-> "skip",
                             reason |-> "protected", dry_run |-> dry_run]))
                  [] d = "would_release" ->
                        Append(stdout, LogLine("INFO", "Elastic IP would be released (dry-run)",
                            [allocation_id |-> address.allocation_id, action |-> "release",
                             dry_run |-> TRUE]))
                  [] d = "release" ->
                        Append(stdout, LogLine("INFO", "Releasing unassociated Elastic IP",
                            [allocation_id |-> address.allocation_id, action |-> "release",
                             dry_run |-> FALSE]))
                  [] OTHER -> stdout
            /\ pc' = IF d = "release" THEN "release" ELSE "for"
    /\ UNCHANGED <<config, released, per_eip_errors, exc, releaseCalls, retval>>

\* Line 120 on an account whose addresses are arbitrary.
NextAddress ==
    /\ pc = "for"
    /\ scanned < MaxAddresses
    /\ \E address \in Addresses(scanned + 1) : LoopBody(address)
    /\ UNCHANGED account

\* Line 120 on an account whose addresses are known: the iterator yields the
\* listed addresses once each, in an order of its own.
NextListedAddress ==
    /\ pc = "for"
    /\ \E id \in pending :
          /\ LoopBody(inventory[id])
          /\ pending' = pending \ {id}
    /\ UNCHANGED <<inventory, listed, run, first_run>>

\* The call with released += 1 ahead of it: a failed call is counted too.
Release_CountedBeforeCall ==
    /\ pc = "release"
    /\ \E outcome \in {NoException} \cup ClientErrors \cup OtherExceptions :
        /\ releaseCalls' = Append(releaseCalls,
                                  [allocation_id |-> elastic_ip.allocation_id, ok |-> outcome = NoException])
        /\ exc' = outcome
        /\ released' = released + 1
        /\ pc' = IF outcome = NoException THEN "for"
                 ELSE IF IsClientError(outcome) THEN "except_ClientError"
                 ELSE "except_Exception"
    /\ UNCHANGED <<config, account, scanned, skipped_not_managed, skipped_protected, associated,
                   would_release, per_eip_errors, elastic_ip, stdout, retval>>

(***************************************************************************)
(* Lines 171-172: elastic_ip.release().  It returns, and released is       *)
(* incremented, or it raises and control goes to the except clause that    *)
(* matches the exception.                                                  *)
(***************************************************************************)
Release ==
    /\ pc = "release"
    /\ \E outcome \in {NoException} \cup ClientErrors \cup OtherExceptions :
        /\ releaseCalls' = Append(releaseCalls,
                                  [allocation_id |-> elastic_ip.allocation_id, ok |-> outcome = NoException])
        /\ exc' = outcome
        /\ released' = released + (IF outcome = NoException THEN 1 ELSE 0)
        /\ pc' = IF outcome = NoException THEN "for"
                 ELSE IF IsClientError(outcome) THEN "except_ClientError"
                 ELSE "except_Exception"
    /\ UNCHANGED <<config, account, scanned, skipped_not_managed, skipped_protected, associated,
                   would_release, per_eip_errors, elastic_ip, stdout, retval>>

\* The except clause without its increment of per_eip_errors.
ExceptClientError_NotCounted ==
    /\ pc = "except_ClientError"
    /\ stdout' = Append(stdout, LogLine("ERROR", "AWS ClientError while processing Elastic IP",
                            [allocation_id |-> elastic_ip.allocation_id,
                             error_code |-> ErrorCode(exc)]))
    /\ pc' = "fail_fast"
    /\ UNCHANGED <<config, account, counters, elastic_ip, exc, releaseCalls, retval>>

(***************************************************************************)
(* Lines 174-188: except ClientError: count it and log it.                 *)
(***************************************************************************)
ExceptClientError ==
    /\ pc = "except_ClientError"
    /\ per_eip_errors' = per_eip_errors + 1
    /\ stdout' = Append(stdout, LogLine("ERROR", "AWS ClientError while processing Elastic IP",
                            [allocation_id |-> elastic_ip.allocation_id,
                             error_code |-> ErrorCode(exc)]))
    /\ pc' = "fail_fast"
    /\ UNCHANGED <<config, account, scanned, skipped_not_managed, skipped_protected, associated,
                   would_release, released, elastic_ip, exc, releaseCalls, retval>>

\* The except clause calling release() again after a code that is not
\* fail-fast.
FailFast_Retries ==
    /\ pc = "fail_fast"
    /\ IF FailFastCode(ErrorCode(exc))
       THEN pc' = "raised" /\ exc' = exc
       ELSE pc' = "release" /\ exc' = NoException
    /\ UNCHANGED <<config, account, counters, elastic_ip, stdout, releaseCalls, retval>>

(***************************************************************************)
(* Lines 190-203: raise on a fail-fast code, continue on any other.        *)
(***************************************************************************)
FailFast ==
    /\ pc = "fail_fast"
    /\ IF FailFastCode(ErrorCode(exc))
       THEN pc' = "raised" /\ exc' = exc
       ELSE pc' = "for" /\ exc' = NoException
    /\ UNCHANGED <<config, account, counters, elastic_ip, stdout, releaseCalls, retval>>

\* The except clause re-raising without its log line.
ExceptException_NotLogged ==
    /\ pc = "except_Exception"
    /\ pc' = "reraise"
    /\ UNCHANGED <<config, account, counters, elastic_ip, exc, stdout, releaseCalls, retval>>

(***************************************************************************)
(* Lines 205-217: except Exception: log it.                                *)
(***************************************************************************)
ExceptException ==
    /\ pc = "except_Exception"
    /\ stdout' = Append(stdout, LogLine("ERROR", "Unexpected error while processing Elastic IP",
                            [allocation_id |-> elastic_ip.allocation_id,
                             error_type |-> exc.class]))
    /\ pc' = "reraise"
    /\ UNCHANGED <<config, account, counters, elastic_ip, exc, releaseCalls, retval>>

\* The except clause ending in continue instead of raise.
Reraise_Swallowed ==
    /\ pc = "reraise"
    /\ pc' = "for"
    /\ exc' = NoException
    /\ UNCHANGED <<config, account, counters, elastic_ip, stdout, releaseCalls, retval>>

(***************************************************************************)
(* Line 218: raise.                                                        *)
(***************************************************************************)
Reraise ==
    /\ pc = "reraise"
    /\ pc' = "raised"
    /\ UNCHANGED <<config, account, counters, elastic_ip, exc, stdout, releaseCalls, retval>>

(***************************************************************************)
(* Lines 120 and 220-235: the iterator is exhausted; the summary line.     *)
(***************************************************************************)
Completed ==
    /\ pc = "for"
    /\ pending = {}
    /\ stdout' = Append(stdout, LogLine("INFO", "ManageEIPs completed", SummaryFields))
    /\ pc' = "metrics"
    /\ UNCHANGED <<config, account, counters, elastic_ip, exc, releaseCalls, retval>>

(***************************************************************************)
(* Lines 238-258: the optional metrics record, then the response.          *)
(***************************************************************************)
Return ==
    /\ pc = "metrics"
    /\ stdout' = IF METRICS_ENABLED
                 THEN Append(stdout, emit_emf_metrics(METRICS_NAMESPACE,
                                 [FunctionName |-> FunctionName], MetricFields))
                 ELSE stdout
    /\ retval' = Some([statusCode |-> 200, body |-> "Processed elastic IPs."])
    /\ pc' = "returned"
    /\ UNCHANGED <<config, account, counters, elastic_ip, exc, releaseCalls>>

Next ==
    \/ DescribeAddressesFails
    \/ NextAddress
    \/ Release
    \/ ExceptClientError
    \/ FailFast
    \/ ExceptException
    \/ Reraise
    \/ Completed
    \/ Return

Spec == Init /\ [][Next]_vars

(***************************************************************************)
(* Two invocations on an account whose addresses are known.  An address    *)
(* that release() returned for is gone from the account, so the second     *)
(* invocation does not list it.                                            *)
(***************************************************************************)
\* One address of each kind the loop body tells apart by its tags.
ListedTags ==
    {None,
     Some(<<[Key |-> MANAGED_TAG_KEY, Value |-> MANAGED_TAG_VALUE]>>),
     Some(<<[Key |-> MANAGED_TAG_KEY, Value |-> MANAGED_TAG_VALUE],
            [Key |-> PROTECT_TAG_KEY, Value |-> PROTECT_TAG_VALUE]>>)}

Inventories ==
    UNION {{inv \in [1..n -> [allocation_id : 1..n, tags : ListedTags,
                              instance_id : {None, Some("i-0abc")}]] :
               \A id \in 1..n : inv[id].allocation_id = id} : n \in 0..MaxInventory}

InitRerun ==
    /\ event \in {EmptyDict, [k \in {"dry_run"} |-> PyStr(<<"T","R","U","E">>)]}
    /\ environ = EmptyDict
    /\ Invoked
    /\ releaseCalls = <<>>
    /\ inventory \in Inventories
    /\ listed = DOMAIN inventory
    /\ pending = DOMAIN inventory
    /\ run = 1
    /\ first_run = None

(***************************************************************************)
(* One address whose tag list is any list of tags, a key repeated or not:  *)
(* _get_tag_value (lines 26-38) takes any list, whatever EC2 would return. *)
(***************************************************************************)
AnyTagLists == UNION {[1..n -> Tag] : n \in 0..MaxTags}

InitAnyTags ==
    /\ event \in {EmptyDict, [k \in {"dry_run"} |-> PyStr(<<"T","R","U","E">>)]}
    /\ environ = EmptyDict
    /\ Invoked
    /\ releaseCalls = <<>>
    /\ inventory \in {[id \in {1} |-> [allocation_id |-> 1, tags |-> Some(t), instance_id |-> i]] :
                          t \in AnyTagLists, i \in {None, Some("i-0abc")}}
    /\ listed = DOMAIN inventory
    /\ pending = DOMAIN inventory
    /\ run = 1
    /\ first_run = None

\* The allocation ids release() has returned for.
ReleasedIds == {releaseCalls[i].allocation_id : i \in {j \in DOMAIN releaseCalls : releaseCalls[j].ok}}

\* The counters as a record.
CounterValues ==
    [scanned |-> scanned,
     skipped_not_managed |-> skipped_not_managed,
     skipped_protected |-> skipped_protected,
     associated |-> associated,
     would_release |-> would_release,
     released |-> released,
     per_eip_errors |-> per_eip_errors]

\* Lines 76-118 again: the Lambda runtime invokes the handler a second time,
\* with the same payload and environment, after the first invocation returned.
Reinvoke ==
    /\ pc = "returned"
    /\ run = 1
    /\ run' = 2
    /\ first_run' = Some(CounterValues)
    /\ listed' = listed \ ReleasedIds
    /\ pending' = listed \ ReleasedIds
    /\ dry_run' = ResolveDryRun
    /\ METRICS_ENABLED' = ResolveMetricsEnabled
    /\ scanned' = 0
    /\ skipped_not_managed' = 0
    /\ skipped_protected' = 0
    /\ associated' = 0
    /\ would_release' = 0
    /\ released' = 0
    /\ per_eip_errors' = 0
    /\ elastic_ip' = Unbound
    /\ exc' = NoException
    /\ pc' = "for"
    /\ stdout' = <<LogLine("INFO", "ManageEIPs start",
                           [dry_run |-> ResolveDryRun,
                            metrics_enabled |-> ResolveMetricsEnabled])>>
    /\ retval' = None
    /\ UNCHANGED <<event, environ, releaseCalls, inventory>>

NextRerun ==
    \/ DescribeAddressesFails
    \/ NextListedAddress
    \/ Release
    \/ ExceptClientError
    \/ FailFast
    \/ ExceptException
    \/ Reraise
    \/ Completed
    \/ Return
    \/ Reinvoke

SpecRerun == InitRerun /\ [][NextRerun]_vars

\* The same two invocations over one address with any tag list.
SpecAnyTags == InitAnyTags /\ [][NextRerun]_vars

TypeOK ==
    /\ pc \in {"for", "release", "except_ClientError", "fail_fast", "except_Exception",
               "reraise", "raised", "metrics", "returned"}
    /\ scanned \in 0..MaxAddresses
    /\ dry_run \in BOOLEAN
    /\ METRICS_ENABLED \in BOOLEAN

(***************************************************************************)
(* Vocabulary of the properties.  The tag predicates read the tag list     *)
(* directly, not through _get_tag_value.                                   *)
(***************************************************************************)
HasTag(address, key, value) ==
    /\ address.tags # None
    /\ \E i \in DOMAIN address.tags[1] :
          address.tags[1][i] = [Key |-> key, Value |-> value]
IsManaged(address) == HasTag(address, MANAGED_TAG_KEY, MANAGED_TAG_VALUE)
IsProtected(address) == HasTag(address, PROTECT_TAG_KEY, PROTECT_TAG_VALUE)
IsAssociated(address) == address.instance_id # None
IsReleasable(address) ==
    IsManaged(address) /\ ~IsProtected(address) /\ ~IsAssociated(address)

\* This step scans an address: elastic_ip' is the address scanned.
ScanStep == scanned' = scanned + 1
\* This step invokes release().
ReleaseStep == releaseCalls' # releaseCalls
\* The release() invocations made on the address with this allocation id.
CallsOn(id) == {i \in DOMAIN releaseCalls : releaseCalls[i].allocation_id = id}

\* C1: a managed address carrying the protect tag is never passed to
\* release(), associated or not, in dry-run or not, whatever came before it:
\* scanning it increments skipped_protected and no other disposition counter
\* and returns to the head of the loop, and no release() invocation is made
\* while a protected managed address is the current one.
C1_ProtectedNeverReleased ==
    [][ /\ (ScanStep /\ IsManaged(elastic_ip') /\ IsProtected(elastic_ip')) =>
              /\ skipped_protected' = skipped_protected + 1
              /\ UNCHANGED <<skipped_not_managed, associated, would_release,
                             released, per_eip_errors>>
              /\ ~ReleaseStep
              /\ pc' = "for"
        /\ ReleaseStep => ~(IsManaged(elastic_ip) /\ IsProtected(elastic_ip))
      ]_vars

C1_Witness ==
    /\ ~dry_run
    /\ pc = "for"
    /\ scanned = 2
    /\ per_eip_errors = 1
    /\ IsManaged(elastic_ip) /\ IsProtected(elastic_ip) /\ ~IsAssociated(elastic_ip)
    /\ skipped_protected = 1
    /\ CallsOn(elastic_ip.allocation_id) = {}

\* C2: an address without the managed tag/value pair (no tags at all, a null
\* tag collection, another value) is SkippedNotManaged whatever its protect
\* tag and association: scanning it increments skipped_not_managed only,
\* raises nothing, logs nothing and returns to the head of the loop, and no
\* release() invocation is made while such an address is the current one.
C2_NotManagedSkipped ==
    [][ /\ (ScanStep /\ ~IsManaged(elastic_ip')) =>
              /\ skipped_not_managed' = skipped_not_managed + 1
              /\ UNCHANGED <<skipped_protected, associated, would_release,
                             released, per_eip_errors>>
              /\ ~ReleaseStep
              /\ exc' = NoException
              /\ pc' = "for"
        /\ ReleaseStep => IsManaged(elastic_ip)
      ]_vars

C2_Witness ==
    /\ ~dry_run
    /\ pc = "for"
    /\ elastic_ip.allocation_id = 2
    /\ elastic_ip.tags = Some(<<[Key |-> PROTECT_TAG_KEY, Value |-> PROTECT_TAG_VALUE]>>)
    /\ ~IsAssociated(elastic_ip)
    /\ skipped_not_managed = 2
    /\ skipped_protected = 0
    /\ releaseCalls = <<>>

\* C3: a managed, unprotected address that is associated with an instance
\* increments associated only and is never passed to release(), in dry-run
\* and in non-dry-run alike.
C3_AssociatedNotReleased ==
    [][ /\ (ScanStep /\ IsManaged(elastic_ip') /\ ~IsProtected(elastic_ip')
                     /\ IsAssociated(elastic_ip')) =>
              /\ associated' = associated + 1
              /\ UNCHANGED <<skipped_not_managed, skipped_protected, would_release,
                             released, per_eip_errors>>
              /\ ~ReleaseStep
              /\ pc' = "for"
        /\ ReleaseStep => ~IsAssociated(elastic_ip)
      ]_vars

C3_Witness ==
    /\ ~dry_run
    /\ pc = "for"
    /\ IsManaged(elastic_ip) /\ ~IsProtected(elastic_ip) /\ IsAssociated(elastic_ip)
    /\ associated = 1
    /\ released = 1
    /\ CallsOn(elastic_ip.allocation_id) = {}

\* The steps of C4: what scanning a releasable address does in each mode,
\* what the release() call does, and when released and would_release move.
C4_Steps ==
    /\ (ScanStep /\ IsReleasable(elastic_ip') /\ dry_run) =>
          /\ would_release' = would_release + 1
          /\ UNCHANGED <<skipped_not_managed, skipped_protected, associated,
                         released, per_eip_errors>>
          /\ ~ReleaseStep
          /\ pc' = "for"
    /\ (ScanStep /\ IsReleasable(elastic_ip') /\ ~dry_run) =>
          /\ UNCHANGED <<skipped_not_managed, skipped_protected, associated,
                         would_release, released, per_eip_errors>>
          /\ ~ReleaseStep
          /\ pc' = "release"
    /\ pc = "release" =>
          /\ releaseCalls' = Append(releaseCalls,
                 [allocation_id |-> elastic_ip.allocation_id, ok |-> exc' = NoException])
          /\ released' = released + (IF exc' = NoException THEN 1 ELSE 0)
          /\ elastic_ip' = elastic_ip
          /\ pc' # "release"
    /\ ReleaseStep => pc = "release" /\ ~dry_run /\ IsReleasable(elastic_ip)
    /\ released' # released =>
          /\ ReleaseStep
          /\ releaseCalls'[Len(releaseCalls')].ok
          /\ released' = released + 1
    /\ would_release' # would_release => dry_run

\* The states of C4: no address is passed to release() twice, none in dry-run,
\* and once the call on a releasable address is over it was made exactly once.
C4_Once ==
    /\ \A id \in 1..scanned : Cardinality(CallsOn(id)) <= 1
    /\ dry_run => releaseCalls = <<>>
    /\ (scanned > 0 /\ IsReleasable(elastic_ip) /\ ~dry_run /\ pc # "release") =>
          Cardinality(CallsOn(elastic_ip.allocation_id)) = 1

\* C4: for a managed, unprotected, unassociated address: under dry-run
\* release() is not invoked and would_release is incremented; under
\* non-dry-run release() is invoked exactly once for that address and
\* released is incremented only by a call that returned.
C4_ReleaseOrWouldRelease == []C4_Once /\ [][C4_Steps]_vars

C4_Witness ==
    /\ ~dry_run
    /\ pc = "for"
    /\ scanned = 2
    /\ IsReleasable(elastic_ip)
    /\ released = 1
    /\ releaseCalls = <<[allocation_id |-> 1, ok |-> FALSE], [allocation_id |-> 2, ok |-> TRUE]>>

(***************************************************************************)
(* Vocabulary of the error properties: the classification as the           *)
(* specification words it, read off the exception itself.                  *)
(***************************************************************************)
AuthorizationCodes ==
    {"AccessDenied", "AccessDeniedException", "UnauthorizedOperation",
     "UnrecognizedClientException", "InvalidClientTokenId",
     "SignatureDoesNotMatch", "ExpiredToken"}
IsApiError(e) == e.class = "ClientError"
HasCode(e) == "Error" \in DOMAIN e.response /\ "Code" \in DOMAIN e.response["Error"]
IsFatal(e) ==
    \/ e # NoException /\ ~IsApiError(e)
    \/ IsApiError(e) /\ HasCode(e) /\ e.response["Error"]["Code"] \in AuthorizationCodes
IsRecoverable(e) ==
    IsApiError(e) /\ (HasCode(e) => e.response["Error"]["Code"] \notin AuthorizationCodes)

\* The run was aborted by an exception raised in the loop body (an exception
\* of describe_addresses is raised before any address is scanned).
AbortedInLoop == pc = "raised" /\ scanned > 0

DispositionSum ==
    skipped_not_managed + skipped_protected + associated + would_release
        + released + per_eip_errors

\* The summary lines printed so far.
SummaryLines ==
    {i \in DOMAIN stdout :
        "message" \in DOMAIN stdout[i] /\ stdout[i].message = "ManageEIPs completed"}

\* C5: counter sum invariant: at the end of a run that no fatal error aborted
\* (the summary, the metrics record and the return), and at every iteration
\* boundary before it, scanned equals the sum of the six disposition counters;
\* the summary line carries counters that satisfy it.
C5_CounterSum ==
    /\ pc \in {"for", "metrics", "returned"} => scanned = DispositionSum
    /\ \A i \in SummaryLines :
          stdout[i].scanned =
              stdout[i].skipped_not_managed + stdout[i].skipped_protected
                  + stdout[i].associated + stdout[i].would_release
                  + stdout[i].released + stdout[i].per_eip_errors

C5_Witness ==
    /\ pc = "returned"
    /\ scanned = 3
    /\ released = 1
    /\ per_eip_errors = 1
    /\ skipped_protected = 1
    /\ SummaryLines # {}

\* The steps of C6: a recoverable failure of release() is counted once in
\* per_eip_errors and not in released, and the decision that follows returns
\* to the head of the loop with every counter as it was.
C6_Steps ==
    /\ (pc = "release" /\ IsRecoverable(exc')) =>
          released' = released /\ per_eip_errors' = per_eip_errors
    /\ (pc = "except_ClientError" /\ IsRecoverable(exc)) =>
          /\ per_eip_errors' = per_eip_errors + 1
          /\ released' = released
          /\ exc' = exc
          /\ pc' = "fail_fast"
    /\ (pc = "fail_fast" /\ IsRecoverable(exc)) =>
          /\ UNCHANGED counters
          /\ pc' = "for"

\* The states of C6: a run is never aborted on a recoverable error, and at
\* the head of the loop the summary is always the next thing the handler can
\* do, as is the scan of one more address while the source yields one.
C6_Continues ==
    /\ AbortedInLoop => ~IsRecoverable(exc)
    /\ pc = "for" => ENABLED Completed
    /\ (pc = "for" /\ scanned < MaxAddresses) => ENABLED NextAddress
    /\ pc = "metrics" => ENABLED Return

\* C6: when release() fails with a recoverable error, per_eip_errors is
\* incremented by one, released is not, and the loop continues: the handler
\* is back at the head of the loop, where the remaining addresses are scanned
\* and the summary and the normal return follow.
C6_RecoverableContinues == []C6_Continues /\ [][C6_Steps]_vars

C6_Witness ==
    /\ pc = "returned"
    /\ retval = Some([statusCode |-> 200, body |-> "Processed elastic IPs."])
    /\ releaseCalls = <<[allocation_id |-> 1, ok |-> FALSE], [allocation_id |-> 3, ok |-> TRUE]>>
    /\ scanned = 3
    /\ per_eip_errors = 1
    /\ released = 1
    /\ SummaryLines # {}

\* The steps of C7: a fatal code makes the decision step raise, and nothing
\* happens after the raise: no scan, no release, no summary, no return.
C7_Steps ==
    /\ (pc = "fail_fast" /\ IsFatal(exc)) =>
          /\ pc' = "raised"
          /\ exc' = exc
          /\ UNCHANGED <<counters, stdout, releaseCalls, retval>>
    /\ (pc \in {"except_ClientError", "fail_fast"} /\ IsFatal(exc)) =>
          ~ScanStep /\ ~ReleaseStep /\ retval' = None
    /\ pc = "raised" => UNCHANGED vars

\* The states of C7: an aborted run has no return value and carries the
\* exception to the caller; the 200 response exists only after a normal
\* completion.
C7_NoReturn ==
    /\ pc = "raised" => retval = None /\ exc # NoException
    /\ retval # None =>
          /\ pc = "returned"
          /\ retval = Some([statusCode |-> 200, body |-> "Processed elastic IPs."])
          /\ exc = NoException
    /\ AbortedInLoop =>
          /\ releaseCalls # <<>>
          /\ ~releaseCalls[Len(releaseCalls)].ok
          /\ releaseCalls[Len(releaseCalls)].allocation_id = scanned

\* C7: when release() fails with a fatal error code the loop aborts at once:
\* no later address is scanned or released, the exception propagates to the
\* caller, and the handler returns no value (the 200 response is returned on
\* normal completion only).
C7_FatalAborts == []C7_NoReturn /\ [][C7_Steps]_vars

C7_Witness ==
    /\ pc = "raised"
    /\ IsApiError(exc) /\ IsFatal(exc)
    /\ scanned = 1
    /\ scanned < MaxAddresses
    /\ releaseCalls = <<[allocation_id |-> 1, ok |-> FALSE]>>
    /\ retval = None

\* The EMF metrics records printed so far.
EmfRecords == {i \in DOMAIN stdout : "_aws" \in DOMAIN stdout[i]}

\* C8 as claimed: on every run, aborted by a fatal error code in the loop or
\* not, the summary event is emitted.
C8_SummaryAlways ==
    (pc = "returned" \/ (AbortedInLoop /\ IsApiError(exc))) => SummaryLines # {}

\* C8, amended: the summary is emitted exactly when the loop completes; a run
\* that a fatal error aborts emits neither a summary nor a metrics record, so
\* the counters accumulated so far are not reported; a run that completes
\* emits one summary, carrying the counters' final values.
C8_SummaryOnCompletionOnly ==
    /\ pc = "raised" => SummaryLines = {} /\ EmfRecords = {}
    /\ pc \notin {"metrics", "returned"} => SummaryLines = {}
    /\ pc \in {"metrics", "returned"} =>
          /\ Cardinality(SummaryLines) = 1
          /\ \A i \in SummaryLines :
                /\ stdout[i].level = "INFO"
                /\ stdout[i].dry_run = dry_run
                /\ stdout[i].scanned = scanned
                /\ stdout[i].skipped_not_managed = skipped_not_managed
                /\ stdout[i].skipped_protected = skipped_protected
                /\ stdout[i].associated = associated
                /\ stdout[i].would_release = would_release
                /\ stdout[i].released = released
                /\ stdout[i].per_eip_errors = per_eip_errors

C8_Witness ==
    /\ AbortedInLoop
    /\ IsApiError(exc) /\ IsFatal(exc)
    /\ scanned = 3
    /\ released = 1
    /\ skipped_protected = 1
    /\ per_eip_errors = 1
    /\ SummaryLines = {}
    /\ EmfRecords = {}

\* The steps of C9: which except clause an exception of release() reaches,
\* and what each clause decides.
C9_Steps ==
    /\ (pc = "release" /\ exc' # NoException) =>
          pc' = IF IsApiError(exc') THEN "except_ClientError" ELSE "except_Exception"
    /\ pc = "except_ClientError" =>
          IsApiError(exc) /\ exc' = exc /\ pc' = "fail_fast"
    /\ (pc = "fail_fast" /\ IsFatal(exc)) => pc' = "raised" /\ exc' = exc
    /\ (pc = "fail_fast" /\ IsRecoverable(exc)) => pc' = "for" /\ exc' = NoException
    /\ pc = "except_Exception" =>
          ~IsApiError(exc) /\ IsFatal(exc) /\ exc' = exc /\ pc' = "reraise"
    /\ pc = "reraise" => pc' = "raised" /\ exc' = exc

\* The states of C9: every exception in flight is on exactly one side of the
\* split, only a fatal one leaves the loop, none survives an iteration.
C9_Split ==
    /\ exc # NoException => (IsFatal(exc) # IsRecoverable(exc))
    /\ AbortedInLoop => IsFatal(exc)
    /\ pc \in {"for", "release", "metrics", "returned"} => exc = NoException

\* C9: error classification is a total two-way split: an API error whose code
\* is one of the seven authorization/credential codes is fatal and raised; an
\* API error with any other code, or with none, is recoverable and the loop
\* continues; a failure that is not an API error is fatal and re-raised.
C9_Classification == []C9_Split /\ [][C9_Steps]_vars

C9_Witness ==
    /\ pc = "for"
    /\ scanned = 1
    /\ releaseCalls = <<[allocation_id |-> 1, ok |-> FALSE]>>
    /\ per_eip_errors = 1
    /\ stdout[Len(stdout)].level = "ERROR"
    /\ stdout[Len(stdout)].error_code = "Unknown"
    /\ exc = NoException

\* The ERROR lines printed so far for the address with this allocation id.
ErrorLines(id) ==
    {i \in DOMAIN stdout :
        /\ "level" \in DOMAIN stdout[i]
        /\ stdout[i].level = "ERROR"
        /\ stdout[i].allocation_id = id}

\* Every failed release() but one still on its way to its except clause has
\* its ERROR line.
FailuresLogged ==
    \A k \in DOMAIN releaseCalls :
        (/\ ~releaseCalls[k].ok
         /\ ~(k = Len(releaseCalls) /\ pc \in {"except_ClientError", "except_Exception"}))
            => ErrorLines(releaseCalls[k].allocation_id) # {}

\* The states of C10: when the decision to raise or continue is about to be
\* taken, and when the run has been aborted, the last line printed is the
\* ERROR line of the current address, with the code or type of the error.
C10_Logged ==
    /\ FailuresLogged
    /\ (pc \in {"fail_fast", "reraise"} \/ AbortedInLoop) =>
          LET line == stdout[Len(stdout)]
          IN  /\ line.level = "ERROR"
              /\ line.allocation_id = elastic_ip.allocation_id
              /\ IsApiError(exc) =>
                    line.error_code =
                        (IF HasCode(exc) THEN exc.response["Error"]["Code"] ELSE "Unknown")
              /\ ~IsApiError(exc) => line.error_type = exc.class

\* The steps of C10: the scan of the next address and the raise that aborts
\* the run start from a state in which every failure has its ERROR line.
C10_Steps ==
    (ScanStep \/ (pc # "raised" /\ pc' = "raised" /\ scanned > 0)) =>
        \A k \in DOMAIN releaseCalls :
            ~releaseCalls[k].ok => ErrorLines(releaseCalls[k].allocation_id) # {}

\* C10: every error raised while an address is processed, fatal or
\* recoverable, produces an ERROR line with the allocation id and the error
\* code or type before the decision is acted on: the line precedes the raise
\* that aborts the run and the scan of the next address.
C10_ErrorLoggedFirst == []C10_Logged /\ [][C10_Steps]_vars

C10_Witness ==
    /\ pc = "for"
    /\ scanned = 2
    /\ releaseCalls = <<[allocation_id |-> 1, ok |-> FALSE]>>
    /\ ErrorLines(1) # {}
    /\ ErrorLines(2) = {}

\* The states of C11: a second dry-run invocation that has completed its loop
\* has the counters the first one ended with, and a dry-run invocation has
\* released nothing.
C11_SameCounters ==
    /\ (dry_run /\ run = 2 /\ pc \in {"metrics", "returned"}) =>
          /\ first_run # None
          /\ first_run[1].scanned = scanned
          /\ first_run[1].skipped_not_managed = skipped_not_managed
          /\ first_run[1].skipped_protected = skipped_protected
          /\ first_run[1].associated = associated
          /\ first_run[1].would_release = would_release
          /\ first_run[1].released = released
          /\ first_run[1].per_eip_errors = per_eip_errors
    /\ dry_run => releaseCalls = <<>> /\ listed = DOMAIN inventory

\* The steps of C11: in dry-run no step invokes release() and none changes
\* the account's addresses or what the next invocation lists.
C11_Steps ==
    dry_run => ~ReleaseStep /\ inventory' = inventory /\ listed' = listed

\* C11: dry-run idempotence: two dry-run invocations over the same account
\* end with identical counters, because a dry-run invocation invokes no
\* release() and leaves every address, its tags and its association as they
\* were.
C11_DryRunIdempotent == []C11_SameCounters /\ [][C11_Steps]_vars

C11_Witness ==
    /\ dry_run
    /\ run = 2
    /\ pc = "returned"
    /\ scanned = 2
    /\ would_release = 1
    /\ skipped_protected = 1
    /\ first_run # None /\ first_run[1].would_release = 1

\* The number of listed addresses of a class, given as the set of its ids.
NotManagedIds == {id \in listed : ~IsManaged(inventory[id])}
ProtectedIds == {id \in listed : IsManaged(inventory[id]) /\ IsProtected(inventory[id])}
AssociatedIds ==
    {id \in listed : /\ IsManaged(inventory[id])
                     /\ ~IsProtected(inventory[id])
                     /\ IsAssociated(inventory[id])}
ReleasableIds == {id \in listed : IsReleasable(inventory[id])}

\* The invocation has finished its loop and no release() of it failed.
ErrorFreeRun == pc \in {"metrics", "returned"} /\ per_eip_errors = 0

\* C12: an error-free run over the listed addresses, scanned in any order,
\* ends with scanned = the number of addresses, skipped_not_managed = the
\* number not managed, skipped_protected = the number managed and protected,
\* associated = the number managed, unprotected and associated, and the
\* number managed, unprotected and unassociated in released (would_release
\* = 0) when not in dry-run, in would_release (released = 0) in dry-run.
C12_CountersMatchClasses ==
    ErrorFreeRun =>
       /\ scanned = Cardinality(listed)
       /\ skipped_not_managed = Cardinality(NotManagedIds)
       /\ skipped_protected = Cardinality(ProtectedIds)
       /\ associated = Cardinality(AssociatedIds)
       /\ released = (IF dry_run THEN 0 ELSE Cardinality(ReleasableIds))
       /\ would_release = (IF dry_run THEN Cardinality(ReleasableIds) ELSE 0)

C12_Witness ==
    /\ ErrorFreeRun
    /\ pc = "returned"
    /\ ~dry_run
    /\ Cardinality(listed) = 2
    /\ Cardinality(ProtectedIds) = 1
    /\ Cardinality(ReleasableIds) = 1
    /\ released = 1
    /\ inventory[1].tags # None /\ Len(inventory[1].tags[1]) = 2

\* The text is "true" in some mix of upper and lower case.
IsTrueText(s) ==
    /\ Len(s) = 4
    /\ s[1] \in {"t", "T"}
    /\ s[2] \in {"r", "R"}
    /\ s[3] \in {"u", "U"}
    /\ s[4] \in {"e", "E"}

\* The string form of a payload or environment value.
TextOf(v) ==
    IF v.type = "str" THEN v.chars
    ELSE IF v.type = "bool"
         THEN (IF v.b THEN <<"T","r","u","e">> ELSE <<"F","a","l","s","e">>)
         ELSE <<"N","o","n","e">>

\* The value that decides dry-run: the payload's, else the environment's,
\* else the default.
ChosenDryRun ==
    IF "dry_run" \in DOMAIN event THEN event["dry_run"]
    ELSE IF "DRY_RUN" \in DOMAIN environ
         THEN [type |-> "str", chars |-> environ["DRY_RUN"]]
         ELSE [type |-> "str", chars |-> <<"f","a","l","s","e">>]

\* C13: dry-run is resolved from the payload's dry_run when the payload has
\* one (DRY_RUN is then ignored), else from DRY_RUN, else it is false; the
\* chosen value is true exactly when its string form is "true" in any case.
C13_DryRunPrecedence ==
    /\ dry_run = IsTrueText(TextOf(ChosenDryRun))
    /\ ("dry_run" \notin DOMAIN event /\ "DRY_RUN" \notin DOMAIN environ) => ~dry_run

C13_Witness ==
    /\ "dry_run" \in DOMAIN event
    /\ event["dry_run"] = [type |-> "str", chars |-> <<"f","a","l","s","e">>]
    /\ "DRY_RUN" \in DOMAIN environ
    /\ environ["DRY_RUN"] = <<"T","r","u","e">>
    /\ ~dry_run
    /\ released = 1
    /\ pc = "returned"

\* The metrics record carries the seven counters of the summary line.
SameAsSummary(record, summary) ==
    /\ record.EIPsScanned = summary.scanned
    /\ record.EIPsSkippedNotManaged = summary.skipped_not_managed
    /\ record.EIPsSkippedProtected = summary.skipped_protected
    /\ record.EIPsAssociated = summary.associated
    /\ record.EIPsWouldRelease = summary.would_release
    /\ record.EIPsReleased = summary.released
    /\ record.EIPsPerEipErrors = summary.per_eip_errors

\* C14 as claimed: every run that has ended, by a return or by an exception,
\* has emitted one metrics record when metrics are enabled and none when
\* they are disabled.
C14_OneRecordEveryRun ==
    pc \in {"returned", "raised"} =>
        Cardinality(EmfRecords) = (IF METRICS_ENABLED THEN 1 ELSE 0)

\* C14, amended: a run that returns with metrics enabled has emitted exactly
\* one metrics record, which names seven metrics of unit Count and carries
\* the values of the summary line; a run with metrics disabled, and a run
\* that an exception aborted, has emitted none.
C14_OneRecordPerCompletedRun ==
    /\ (pc = "returned" /\ METRICS_ENABLED) =>
          /\ Cardinality(EmfRecords) = 1
          /\ Cardinality(SummaryLines) = 1
          /\ \A i \in EmfRecords : \A j \in SummaryLines :
                /\ SameAsSummary(stdout[i], stdout[j])
                /\ j < i
                /\ Cardinality(stdout[i]["_aws"].CloudWatchMetrics[1].Metrics) = 7
    /\ ~METRICS_ENABLED => EmfRecords = {}
    /\ pc # "returned" => EmfRecords = {}

C14_Witness ==
    /\ pc = "returned"
    /\ METRICS_ENABLED
    /\ Cardinality(EmfRecords) = 1
    /\ scanned = 3
    /\ released = 1
    /\ per_eip_errors = 1
    /\ associated = 1
    /\ \A i \in EmfRecords : stdout[i].EIPsReleased = 1 /\ stdout[i].EIPsWouldRelease = 0

\* The positions of the tags of a key in a tag list.
Occurrences(tags, key) == {i \in DOMAIN tags : tags[i].Key = key}
HasDuplicateKey(tags) == \E i, j \in DOMAIN tags : i < j /\ tags[i].Key = tags[j].Key

\* The value of the last, and of the first, tag of the key is value.
LastIs(address, key, value) ==
    LET tags == address.tags[1]
    IN  /\ Occurrences(tags, key) # {}
        /\ \E i \in Occurrences(tags, key) :
              /\ \A j \in Occurrences(tags, key) : j <= i
              /\ tags[i].Value = value
FirstIs(address, key, value) ==
    LET tags == address.tags[1]
    IN  /\ Occurrences(tags, key) # {}
        /\ \E i \in Occurrences(tags, key) :
              /\ \A j \in Occurrences(tags, key) : i <= j
              /\ tags[i].Value = value

\* C15 as claimed: the last tag of a repeated key decides: an address is
\* skipped as not managed exactly when the last managed-key tag is not the
\* allow-list value, and as protected exactly when it is and the last
\* protect-key tag is the protect value.
C15_LastWriteWins ==
    (pc \in {"metrics", "returned"} /\ run = 1) =>
       \A id \in listed :
          LET a == inventory[id]
              managed == LastIs(a, MANAGED_TAG_KEY, MANAGED_TAG_VALUE)
              protected == LastIs(a, PROTECT_TAG_KEY, PROTECT_TAG_VALUE)
          IN  /\ skipped_not_managed = (IF managed THEN 0 ELSE 1)
              /\ skipped_protected = (IF managed /\ protected THEN 1 ELSE 0)

\* C15, amended: the first tag of a repeated key decides (first-match-wins):
\* an address is skipped as not managed exactly when the first managed-key
\* tag is not the allow-list value, and as protected exactly when it is and
\* the first protect-key tag is the protect value.
C15_FirstMatchWins ==
    (pc \in {"metrics", "returned"} /\ run = 1) =>
       \A id \in listed :
          LET a == inventory[id]
              managed == FirstIs(a, MANAGED_TAG_KEY, MANAGED_TAG_VALUE)
              protected == FirstIs(a, PROTECT_TAG_KEY, PROTECT_TAG_VALUE)
          IN  /\ skipped_not_managed = (IF managed THEN 0 ELSE 1)
              /\ skipped_protected = (IF managed /\ protected THEN 1 ELSE 0)

C15_Witness ==
    /\ pc = "returned"
    /\ run = 1
    /\ listed = {1}
    /\ HasDuplicateKey(inventory[1].tags[1])
    /\ FirstIs(inventory[1], MANAGED_TAG_KEY, MANAGED_TAG_VALUE)
    /\ ~LastIs(inventory[1], MANAGED_TAG_KEY, MANAGED_TAG_VALUE)
    /\ skipped_not_managed = 0
    /\ released = 1

\* The states of C16: no two calls of release() are on the same address,
\* and there are no more calls than addresses scanned.
C16_NoRepeat ==
    /\ \A i, j \in DOMAIN releaseCalls :
          releaseCalls[i].allocation_id = releaseCalls[j].allocation_id => i = j
    /\ Len(releaseCalls) <= scanned

\* The steps of C16: a call of release() is on the address being scanned,
\* which has had none before; the except clauses neither call release() nor
\* lead back to it; release() is reached only by scanning the next address.
C16_Steps ==
    /\ ReleaseStep =>
          /\ CallsOn(elastic_ip.allocation_id) = {}
          /\ Len(releaseCalls') = Len(releaseCalls) + 1
          /\ SubSeq(releaseCalls', 1, Len(releaseCalls)) = releaseCalls
          /\ releaseCalls'[Len(releaseCalls')].allocation_id = elastic_ip.allocation_id
    /\ pc \in {"except_ClientError", "fail_fast", "except_Exception", "reraise", "raised"} =>
          ~ReleaseStep /\ pc' # "release"
    /\ pc' = "release" => pc = "for" /\ ScanStep /\ CallsOn(elastic_ip'.allocation_id) = {}

\* C16: within one run release() is attempted at most once per address: an
\* address whose release failed with a recoverable error is not retried, and
\* no address is released twice, whatever the successes and failures.
C16_SingleAttempt == []C16_NoRepeat /\ [][C16_Steps]_vars

C16_Witness ==
    /\ pc = "for"
    /\ scanned = 3
    /\ Len(releaseCalls) = 3
    /\ ~releaseCalls[1].ok
    /\ releaseCalls[2].ok
    /\ ~releaseCalls[3].ok
    /\ per_eip_errors = 2
    /\ released = 1

\* C17: a release that fails with a fatal error halts accumulation without
\* entering any bucket: per_eip_errors moves only for a failure classified
\* recoverable, so at a fatal abort scanned exceeds the sum of the six
\* disposition counters by exactly one, the failing address.
C17_FatalEntersNoBucket ==
    /\ AbortedInLoop => scanned = DispositionSum + 1
    /\ (pc = "fail_fast" /\ IsFatal(exc)) => scanned = DispositionSum + 1

\* C18: mode exclusivity, in every reachable state of a run: in dry-run
\* released is 0 and release() has never been invoked; out of dry-run
\* would_release is 0.
C18_ModeExclusive ==
    /\ dry_run => released = 0 /\ Len(releaseCalls) = 0 /\ pc # "release"
    /\ ~dry_run => would_release = 0

C18_Witness ==
    /\ dry_run
    /\ pc = "returned"
    /\ scanned = 3
    /\ would_release = 2
    /\ associated = 1
    /\ released = 0
    /\ Len(releaseCalls) = 0

\* The calls of release() that returned.
SucceededCalls == {i \in DOMAIN releaseCalls : releaseCalls[i].ok}

\* C19 as claimed: at every iteration boundary, at the end of the run and at
\* every abort, the number of calls of release() is released +
\* per_eip_errors, and released is the number of calls that succeeded.
C19_AccountingAtEveryAbort ==
    /\ pc \in {"for", "metrics", "returned", "raised"} =>
          Len(releaseCalls) = released + per_eip_errors
    /\ released = Cardinality(SucceededCalls)

\* C19, amended: the number of calls of release() is released +
\* per_eip_errors at every iteration boundary, at the end of the run and at
\* an abort by an API error; at an abort by a failure of release() that is
\* not an API error it is released + per_eip_errors + 1, that call being
\* counted nowhere; released is always the number of calls that succeeded.
C19_ReleaseAccounting ==
    /\ pc \in {"for", "metrics", "returned"} =>
          Len(releaseCalls) = released + per_eip_errors
    /\ (pc = "raised" /\ IsApiError(exc)) =>
          Len(releaseCalls) = released + per_eip_errors
    /\ (AbortedInLoop /\ ~IsApiError(exc)) =>
          Len(releaseCalls) = released + per_eip_errors + 1
    /\ released = Cardinality(SucceededCalls)

C19_Witness ==
    /\ AbortedInLoop
    /\ IsApiError(exc)
    /\ Len(releaseCalls) = 3
    /\ released = 1
    /\ per_eip_errors = 2
    /\ Cardinality(SucceededCalls) = 1

\* A failure that is not an API error is being handled, or has aborted the
\* run.
NonApiFailure ==
    \/ pc \in {"except_Exception", "reraise"}
    \/ AbortedInLoop /\ ~IsApiError(exc)

\* The calls of release() that raised.
FailedCalls == {i \in DOMAIN releaseCalls : ~releaseCalls[i].ok}

\* The states of C20: the failing address is scanned and is in no counter,
\* per_eip_errors holds the earlier failures only, and nothing of the end of
\* the run exists.
C20_Uncounted ==
    NonApiFailure =>
        /\ exc # NoException /\ ~IsApiError(exc)
        /\ scanned = DispositionSum + 1
        /\ elastic_ip.allocation_id = scanned
        /\ per_eip_errors = Cardinality(FailedCalls) - 1
        /\ SummaryLines = {}
        /\ EmfRecords = {}
        /\ retval = None

\* The steps of C20: from the failure to the raise no counter moves, no
\* address is scanned and release() is not called; the raise ends the run.
C20_Steps ==
    /\ (pc = "release" /\ exc' # NoException /\ ~IsApiError(exc')) =>
          pc' = "except_Exception" /\ UNCHANGED counters
    /\ pc = "except_Exception" => pc' = "reraise"
    /\ pc = "reraise" => pc' = "raised"
    /\ NonApiFailure =>
          /\ UNCHANGED <<counters, exc, releaseCalls, retval>>
          /\ ~ScanStep
          /\ SummaryLines' = {} /\ EmfRecords' = {}
    /\ (AbortedInLoop /\ ~IsApiError(exc)) => UNCHANGED vars

\* C20: when processing an address raises a failure that is not an API
\* error, the run aborts with scanned incremented for that address and
\* neither a disposition counter nor per_eip_errors incremented for it; no
\* later address is processed, and neither the summary nor the metrics
\* record is emitted.
C20_NonApiFailureAborts == []C20_Uncounted /\ [][C20_Steps]_vars

C20_Witness ==
    /\ AbortedInLoop
    /\ ~IsApiError(exc)
    /\ scanned = 2
    /\ scanned < MaxAddresses
    /\ released = 1
    /\ per_eip_errors = 0
    /\ DispositionSum = 1
    /\ METRICS_ENABLED
    /\ SummaryLines = {}
    /\ EmfRecords = {}

====
